---- MODULE Spec2Model ----
(***************************************************************************)
(* Discovery-diff-notify pipeline of the Respondent.io monitoring agent.   *)
(*                                                                         *)
(*   server/agent.ts    runCheck (scrape, reconcile, notify, mark)         *)
(*   server/storage.ts  DatabaseStorage (studies, recipients, logs)        *)
(*   server/email.ts    sendStudyNotification                              *)
(*   shared/schema.ts   the tables and their constraints                   *)
(*                                                                         *)
(* Every `await` of runCheck is one atomic step of a run; the steps of     *)
(* different runCheck executions interleave freely, as the manual trigger  *)
(* (POST /api/check) and the interval timer do not serialise runs.  The    *)
(* addLog call that directly follows a storage call is taken together with *)
(* it: addLog touches the check_logs table only.                           *)
(*                                                                         *)
(* Ten specifications:                                                     *)
(*   Spec       runCheck executions against the store, with the recipient  *)
(*              list edited through the API meanwhile;                     *)
(*   StoreSpec  the study operations of DatabaseStorage called one at a    *)
(*              time with arbitrary arguments; lastOp holds the call, the  *)
(*              table before it and what it returned.                      *)
(*   RunSpec    one runCheck execution with the failure of the fetch and   *)
(*              the send loop of sendStudyNotification step by step;       *)
(*   AgentSpec  the scheduler of agent.ts: overlapping startAgent,         *)
(*              stopAgent, restartAgent, timer callbacks, manual checks.   *)
(*   CallSpec   the same scheduler with one request or callback at a time, *)
(*              and storage calls of a callback that may fail;             *)
(*   SettingsSpec  overlapping getAgentSettings and updateAgentSettings    *)
(*              calls on the settings table, statement by statement;       *)
(*   TextSpec   the extraction and digest functions applied to card texts, *)
(*              pages and batches; lastOp holds the call and its result.   *)
(*   FaultSpec  one runCheck execution whose log writes may fail;          *)
(*   TimerSpec  the scheduler with timer callbacks that recur, under weak  *)
(*              fairness of the callbacks and of the awaits;               *)
(*   LogSpec    the scheduler with the entries it hands to addLog.         *)
(***************************************************************************)
EXTENDS Integers, Sequences, FiniteSets, TLC

\* ------------------------------------------------------------------ bounds
\* number of runCheck executions of a behaviour; they may all overlap
MaxRuns == 2
\* number of rows that a StoreSpec behaviour inserts
MaxRows == 3

\* number of scheduler calls of an AgentSpec behaviour (the start-up call,
\* settings and check requests, timer callbacks); they may all overlap
MaxCalls == 4

\* TextSpec: pieces of a card text, anchors of a page, records of a batch
MaxTokens == 2
MaxAnchors == 3
MaxBatch == 12
\* unnamed/part_002:12  studies.slice(0, 10)
DigestCap == 10

Runs == 1..MaxRuns

Calls == 1..MaxCalls

\* a call that has not begun
IdleCall == [kind |-> "none", pc |-> "idle", minutes |-> 0]

\* identities that the listing page shows (hex ids of /view/<id> links)
ExternalIds == {"abc123", "def456"}
\* recipient addresses
Emails == {"a@x.io"}
\* recipient addresses of RunSpec
Addresses == Emails \cup {"b@x.io"}

\* ------------------------------------------------------------- data model
\* pgTable("studies"): id is a generated key, external_id is UNIQUE,
\* notified is a boolean that defaults to false.
studiesRow(id, externalId, payout, notified) ==
    [id |-> id, externalId |-> externalId, payout |-> payout, notified |-> notified]

\* ScrapedStudy: a candidate of one extraction pass
ScrapedStudy(externalId, payout) == [externalId |-> externalId, payout |-> payout]

\* The cards the page may show at a fetch: two listings, the first of
\* which is repriced at some time.  payout stands for every content column
\* that runCheck copies from the candidate (title, duration, ...).
Candidates ==
    {ScrapedStudy("abc123", 150), ScrapedStudy("abc123", 200), ScrapedStudy("def456", 75)}

\* An extraction pass returns each externalId at most once, in any order.
\* The empty list is also what a failed fetch returns.
DistinctIds(sq) == \A a, b \in 1..Len(sq) : sq[a].externalId = sq[b].externalId => a = b

scrapeRespondentStudies ==
    {sq \in UNION {[1..n -> Candidates] : n \in 0..Cardinality(ExternalIds)} : DistinctIds(sq)}

SeqToSet(sq) == {sq[a] : a \in 1..Len(sq)}

IdsOf(sq) == {sq[a].id : a \in 1..Len(sq)}

ExternalIdsOf(sq) == {sq[a].externalId : a \in 1..Len(sq)}

\* ---------------------------------------------------- DatabaseStorage (studies)
\* variant: the lookup compares the row key with the external id
getStudyByExternalId_byKey(store, externalId) == {s \in store : ToString(s.id) = externalId}

\* select ... where external_id = x; result[0] or undefined (here: the set
\* of matching rows, of which the caller tests emptiness)
getStudyByExternalId(store, externalId) == {s \in store : s.externalId = externalId}

\* variant: the column has no UNIQUE constraint
UniqueViolation_none(store, externalId) == FALSE

\* the UNIQUE constraint of external_id rejects the insert
UniqueViolation(store, externalId) == \E s \in store : s.externalId = externalId

\* insert ... returning: the row as stored
createStudy(store, id, ins) ==
    store \cup {studiesRow(id, ins.externalId, ins.payout, ins.notified)}

\* update studies set <partial> where external_id = x
updateStudy(store, externalId, partial) ==
    {IF s.externalId = externalId
       THEN [f \in DOMAIN s |-> IF f \in DOMAIN partial THEN partial[f] ELSE s[f]]
       ELSE s : s \in store}

\* variant: the update has no where clause
markStudyNotified_all(store, id) == {[s EXCEPT !.notified = TRUE] : s \in store}

\* variant: the update flips the flag
markStudyNotified_flip(store, id) ==
    {IF s.id = id THEN [s EXCEPT !.notified = ~s.notified] ELSE s : s \in store}

\* update studies set notified = true where id = id
markStudyNotified(store, id) ==
    {IF s.id = id THEN [s EXCEPT !.notified = TRUE] ELSE s : s \in store}

\* variant: no guard against the empty list
syncStudies_unguarded(store, currentExternalIds) ==
    {s \in store : s.externalId \in SeqToSet(currentExternalIds)}

\* variant: inArray in place of notInArray
syncStudies_inArray(store, currentExternalIds) ==
    IF Len(currentExternalIds) = 0
      THEN store
      ELSE {s \in store : s.externalId \notin SeqToSet(currentExternalIds)}

\* delete from studies where external_id not in (ids), guarded against []
syncStudies(store, currentExternalIds) ==
    IF Len(currentExternalIds) = 0
      THEN store
      ELSE {s \in store : s.externalId \in SeqToSet(currentExternalIds)}

\* result.length of the delete ... returning
syncStudiesResult(store, currentExternalIds) ==
    Cardinality(store) - Cardinality(syncStudies(store, currentExternalIds))

\* variant: the select has no where clause
getActiveEmailRecipients_all(rcpts) == {e \in DOMAIN rcpts : rcpts[e] # "absent"}

\* select ... from email_recipients where active = true
getActiveEmailRecipients(rcpts) == {e \in DOMAIN rcpts : rcpts[e] = "active"}

\* ------------------------------------------------------------------ state
VARIABLES
    studies,        \* the studies table
    nextId,         \* source of generated row ids
    emailRecipients,\* the email_recipients table: address -> absent/active/inactive
    pc,             \* per run: position in runCheck
    scrapedStudies, \* per run: result of the extraction pass
    idx,            \* per run: index of the for loops
    newStudies,     \* per run: rows created by this run
    emails,         \* per run: addresses read for the notification
    result,         \* per run: returned list
    checkLogs,      \* per run: log entries appended by this run, in order
    startedAfter,   \* per run: runs that had returned when this run began
    scrapedIds,     \* per run: the identities its extraction pass returned
    notifyCalls,    \* sendStudyNotification calls made so far
    lastOp,         \* StoreSpec: the last storage call and its outcome
    fetchFailed,    \* RunSpec: the extraction pass ended in the catch block of the scraper
    sendQueue,      \* RunSpec: the address list given to sendStudyNotification
    sendIdx,        \* RunSpec: position of the for loop over the addresses
    sendAttempts,   \* RunSpec: address -> number of gmail send calls for it
    sendFailed,     \* RunSpec: addresses whose send call threw
    isRunning,      \* AgentSpec: agent.ts `let isRunning`
    agentInterval,  \* AgentSpec: agent.ts `let agentInterval` (0 is null)
    timers,         \* AgentSpec: the interval timers of the event loop that are live
    agentSettings,  \* AgentSpec: the agent_settings table
    task            \* AgentSpec: per call of the scheduler: entry point, position, locals

\* RunSpec: the fetch outcome and the send loop of the one run it follows
detailVars == <<fetchFailed, sendQueue, sendIdx, sendAttempts, sendFailed>>

\* AgentSpec: the scheduler of agent.ts and the settings it reads
agentVars == <<isRunning, agentInterval, timers, agentSettings, task>>

storeVars == <<studies, nextId, emailRecipients, pc, scrapedStudies, idx, newStudies,
               emails, result, checkLogs, startedAfter, scrapedIds, notifyCalls, lastOp,
               detailVars>>

vars == <<storeVars, agentVars>>

runVars == <<pc, scrapedStudies, idx, newStudies, emails, result, checkLogs,
             startedAfter, scrapedIds, notifyCalls>>

NoOp == [op |-> "none"]

Init ==
    /\ studies = {}
    /\ nextId = 1
    /\ emailRecipients = [e \in Emails |-> "absent"]
    /\ pc = [r \in Runs |-> "idle"]
    /\ scrapedStudies = [r \in Runs |-> << >>]
    /\ idx = [r \in Runs |-> 0]
    /\ newStudies = [r \in Runs |-> << >>]
    /\ emails = [r \in Runs |-> {}]
    /\ result = [r \in Runs |-> << >>]
    /\ checkLogs = [r \in Runs |-> << >>]
    /\ startedAfter = [r \in Runs |-> {}]
    /\ scrapedIds = [r \in Runs |-> {}]
    /\ notifyCalls = {}
    /\ lastOp = NoOp
    /\ fetchFailed = FALSE
    /\ sendQueue = << >>
    /\ sendIdx = 0
    /\ sendAttempts = [e \in Addresses |-> 0]
    /\ sendFailed = {}
    /\ isRunning = FALSE
    /\ agentInterval = 0
    /\ timers = {}
    /\ agentSettings = << >>
    /\ task = [t \in Calls |-> IdleCall]

\* ---------------------------------------------------------------- addLog
LogEntry(message, logType) == [message |-> message, logType |-> logType]

\* variant: the entry takes the place of the entries of the run
addLog_replace(log, r, message, logType) ==
    [log EXCEPT ![r] = <<LogEntry(message, logType)>>]

addLog(log, r, message, logType) ==
    [log EXCEPT ![r] = Append(@, LogEntry(message, logType))]

\* --------------------------------------------------------------- runCheck
\* agent.ts:20  the run begins: addLog("Initiating scheduled check...")
\* runCheck returns: the run is over and its locals are gone
Return(r, value) ==
    /\ scrapedStudies' = [scrapedStudies EXCEPT ![r] = << >>]
    /\ result' = [result EXCEPT ![r] = value]
    /\ pc' = [pc EXCEPT ![r] = "done"]
    /\ idx' = [idx EXCEPT ![r] = 0]
    /\ newStudies' = [newStudies EXCEPT ![r] = << >>]
    /\ emails' = [emails EXCEPT ![r] = {}]

\* Runs are numbered in the order in which they begin.
RunStart(r) ==
    /\ pc[r] = "idle"
    /\ \A q \in Runs : q < r => pc[q] # "idle"
    /\ pc' = [pc EXCEPT ![r] = "scrape"]
    /\ checkLogs' = addLog(checkLogs, r, <<"Initiating scheduled check...">>, "info")
    /\ startedAfter' = [startedAfter EXCEPT ![r] = {q \in Runs : pc[q] = "done"}]
    /\ UNCHANGED <<studies, nextId, emailRecipients, scrapedStudies, idx, newStudies,
                   emails, result, scrapedIds, notifyCalls, lastOp, detailVars, agentVars>>

\* variant: the test is missing
NoStudiesFound_never(page) == FALSE

\* agent.ts:26  scrapedStudies.length === 0
NoStudiesFound(page) == Len(page) = 0

\* agent.ts:24-31  the extraction pass and the test for zero candidates
RunScrape(r) ==
    /\ pc[r] = "scrape"
    /\ \E page \in scrapeRespondentStudies :
         /\ scrapedIds' = [scrapedIds EXCEPT ![r] = ExternalIdsOf(page)]
         /\ IF NoStudiesFound(page)
              THEN /\ checkLogs' = addLog(checkLogs, r,
                                     <<"No studies found on Respondent.io page">>, "info")
                   /\ Return(r, << >>)
              ELSE /\ checkLogs' = addLog(checkLogs, r,
                                     <<"Found potential studies", Len(page)>>, "info")
                   /\ scrapedStudies' = [scrapedStudies EXCEPT ![r] = page]
                   /\ pc' = [pc EXCEPT ![r] = "lookup"]
                   /\ idx' = [idx EXCEPT ![r] = 1]
                   /\ UNCHANGED <<result, newStudies, emails>>
    /\ UNCHANGED <<studies, nextId, emailRecipients, startedAfter, notifyCalls, lastOp, detailVars, agentVars>>

\* agent.ts:36-38  one iteration of the for loop: the lookup by externalId
RunLookup(r) ==
    /\ pc[r] = "lookup"
    /\ idx[r] <= Len(scrapedStudies[r])
    /\ LET scraped  == scrapedStudies[r][idx[r]]
           existing == getStudyByExternalId(studies, scraped.externalId)
       IN IF existing = {}
            THEN /\ pc' = [pc EXCEPT ![r] = "create"]
                 /\ idx' = idx
            ELSE /\ pc' = pc
                 /\ idx' = [idx EXCEPT ![r] = @ + 1]
    /\ UNCHANGED <<studies, nextId, emailRecipients, scrapedStudies, newStudies, emails,
                   result, checkLogs, startedAfter, scrapedIds, notifyCalls, lastOp, detailVars, agentVars>>

\* agent.ts:40-53  createStudy of an absent candidate, then the "New study"
\* entry; agent.ts:83-87 when the insert throws (UNIQUE violation)
RunCreate(r) ==
    /\ pc[r] = "create"
    /\ LET scraped == scrapedStudies[r][idx[r]]
           ins     == [externalId |-> scraped.externalId, payout |-> scraped.payout,
                       notified |-> FALSE]
           saved   == studiesRow(nextId, ins.externalId, ins.payout, ins.notified)
       IN IF UniqueViolation(studies, scraped.externalId)
            THEN /\ checkLogs' = addLog(checkLogs, r,
                                   <<"Check failed", "duplicate key">>, "error")
                 /\ Return(r, << >>)
                 /\ UNCHANGED <<studies, nextId>>
            ELSE /\ studies' = createStudy(studies, nextId, ins)
                 /\ nextId' = nextId + 1
                 /\ newStudies' = [newStudies EXCEPT ![r] = Append(@, saved)]
                 /\ checkLogs' = addLog(checkLogs, r,
                                   <<"New study", saved.externalId, saved.payout>>, "success")
                 /\ idx' = [idx EXCEPT ![r] = @ + 1]
                 /\ pc' = [pc EXCEPT ![r] = "lookup"]
                 /\ UNCHANGED <<result, emails, scrapedStudies>>
    /\ UNCHANGED <<emailRecipients, startedAfter, scrapedIds, notifyCalls, lastOp, detailVars, agentVars>>

\* variant: the test is missing
NothingNew_never(created) == FALSE

\* agent.ts:57  newStudies.length === 0
NothingNew(created) == Len(created) = 0

\* agent.ts:57-66, 78-82  after the loop: nothing new, or the read of the
\* active recipients
RunRecipients(r) ==
    /\ pc[r] = "lookup"
    /\ idx[r] > Len(scrapedStudies[r])
    /\ IF NothingNew(newStudies[r])
         THEN /\ checkLogs' = addLog(checkLogs, r,
                                <<"All studies already known - no new matches">>, "info")
              /\ Return(r, << >>)
         ELSE LET activeRecipients == getActiveEmailRecipients(emailRecipients)
              IN IF Cardinality(activeRecipients) > 0
                   THEN /\ emails' = [emails EXCEPT ![r] = activeRecipients]
                        /\ checkLogs' = addLog(checkLogs, r,
                               <<"Sending notifications", Cardinality(activeRecipients)>>,
                               "warning")
                        /\ pc' = [pc EXCEPT ![r] = "send"]
                        /\ UNCHANGED <<result, idx, newStudies, scrapedStudies>>
                   ELSE /\ checkLogs' = addLog(checkLogs, r,
                               <<"No active email recipients configured">>, "warning")
                        /\ Return(r, newStudies[r])
    /\ UNCHANGED <<studies, nextId, emailRecipients,
                   startedAfter, scrapedIds, notifyCalls, lastOp, detailVars, agentVars>>

\* email.ts:65-143  sendStudyNotification(emails, studies): false when the
\* Gmail client cannot be obtained (outer catch); otherwise one send per
\* address, a failed send is caught inside the loop, and the call returns
\* true.  The record is what the call was given and what it returned.
\* variant: the call is given the candidates of the page, not the saved rows
sendStudyNotification_scraped(r, to, batch, clientOk) ==
    [run |-> r,
     batch |-> {studiesRow(0, c.externalId, c.payout, FALSE) : c \in SeqToSet(scrapedStudies[r])},
     success |-> clientOk]

sendStudyNotification(r, to, batch, clientOk) ==
    [run |-> r, batch |-> SeqToSet(batch), success |-> clientOk]

\* agent.ts:68-77, 82  the notification call and its outcome entry
RunSend(r) ==
    /\ pc[r] = "send"
    /\ \E clientOk \in BOOLEAN :
         LET call == sendStudyNotification(r, emails[r], newStudies[r], clientOk)
         IN /\ notifyCalls' = notifyCalls \cup {call}
            /\ IF call.success
                 THEN /\ checkLogs' = addLog(checkLogs, r,
                                        <<"Email notifications sent successfully">>, "success")
                      /\ pc' = [pc EXCEPT ![r] = "mark"]
                      /\ idx' = [idx EXCEPT ![r] = 1]
                      /\ UNCHANGED <<result, newStudies, emails, scrapedStudies>>
                 ELSE /\ checkLogs' = addLog(checkLogs, r,
                                        <<"Failed to send email notifications">>, "error")
                      /\ Return(r, newStudies[r])
    /\ UNCHANGED <<studies, nextId, emailRecipients, startedAfter, scrapedIds, lastOp, detailVars, agentVars>>

\* agent.ts:72-74, 82  one markStudyNotified of the loop; the run returns
\* after the last one
RunMark(r) ==
    /\ pc[r] = "mark"
    /\ idx[r] <= Len(newStudies[r])
    /\ studies' = markStudyNotified(studies, newStudies[r][idx[r]].id)
    /\ IF idx[r] = Len(newStudies[r])
         THEN Return(r, newStudies[r])
         ELSE /\ idx' = [idx EXCEPT ![r] = @ + 1]
              /\ UNCHANGED <<result, pc, newStudies, emails, scrapedStudies>>
    /\ UNCHANGED <<nextId, emailRecipients,
                   checkLogs, startedAfter, scrapedIds, notifyCalls, lastOp, detailVars, agentVars>>

runCheck(r) ==
    \/ RunStart(r)
    \/ RunScrape(r)
    \/ RunLookup(r)
    \/ RunCreate(r)
    \/ RunRecipients(r)
    \/ RunSend(r)
    \/ RunMark(r)

\* ------------------------------------------------- recipients (API layer)
\* routes.ts:54-63  POST /api/emails: insert, active defaults to true
addEmailRecipient(e, active) ==
    /\ emailRecipients[e] = "absent"
    /\ emailRecipients' = [emailRecipients EXCEPT ![e] = IF active THEN "active" ELSE "inactive"]
    /\ UNCHANGED <<studies, nextId, runVars, lastOp, detailVars, agentVars>>

\* routes.ts:84-92  PATCH /api/emails/:id
toggleEmailRecipient(e, active) ==
    /\ emailRecipients[e] # "absent"
    /\ emailRecipients' = [emailRecipients EXCEPT ![e] = IF active THEN "active" ELSE "inactive"]
    /\ UNCHANGED <<studies, nextId, runVars, lastOp, detailVars, agentVars>>

\* routes.ts:74-77  DELETE /api/emails/:id
removeEmailRecipient(e) ==
    /\ emailRecipients[e] # "absent"
    /\ emailRecipients' = [emailRecipients EXCEPT ![e] = "absent"]
    /\ UNCHANGED <<studies, nextId, runVars, lastOp, detailVars, agentVars>>

Next ==
    \/ \E r \in Runs : RunStart(r)
    \/ \E r \in Runs : RunScrape(r)
    \/ \E r \in Runs : RunLookup(r)
    \/ \E r \in Runs : RunCreate(r)
    \/ \E r \in Runs : RunRecipients(r)
    \/ \E r \in Runs : RunSend(r)
    \/ \E r \in Runs : RunMark(r)
    \/ \E e \in Emails, active \in BOOLEAN : addEmailRecipient(e, active)
    \/ \E e \in Emails, active \in BOOLEAN : toggleEmailRecipient(e, active)
    \/ \E e \in Emails : removeEmailRecipient(e)

Spec == Init /\ [][Next]_vars

\* ------------------------------------------ DatabaseStorage, call by call
Payouts == {c.payout : c \in Candidates}

\* Partial<InsertStudy> arguments of updateStudy
Partials ==
    {[payout |-> p] : p \in Payouts}
      \cup {[notified |-> b] : b \in BOOLEAN}
      \cup {[externalId |-> x] : x \in ExternalIds}

\* string[] arguments of syncStudies
IdLists == UNION {[1..n -> ExternalIds] : n \in 0..Cardinality(ExternalIds)}

StoreCreateStudy(x, p, n) ==
    /\ nextId <= MaxRows
    /\ LET ins == [externalId |-> x, payout |-> p, notified |-> n]
       IN IF UniqueViolation(studies, x)
            THEN /\ lastOp' = [op |-> "createStudy", before |-> studies, threw |-> TRUE]
                 /\ UNCHANGED <<studies, nextId>>
            ELSE /\ studies' = createStudy(studies, nextId, ins)
                 /\ nextId' = nextId + 1
                 /\ lastOp' = [op |-> "createStudy", before |-> studies, threw |-> FALSE]
    /\ UNCHANGED <<emailRecipients, runVars, detailVars, agentVars>>

StoreUpdateStudy(x, partial) ==
    /\ LET clash == /\ "externalId" \in DOMAIN partial
                    /\ partial.externalId # x
                    /\ getStudyByExternalId(studies, x) # {}
                    /\ UniqueViolation(studies, partial.externalId)
       IN IF clash
            THEN /\ lastOp' = [op |-> "updateStudy", before |-> studies, threw |-> TRUE]
                 /\ UNCHANGED studies
            ELSE /\ studies' = updateStudy(studies, x, partial)
                 /\ lastOp' = [op |-> "updateStudy", before |-> studies, threw |-> FALSE]
    /\ UNCHANGED <<nextId, emailRecipients, runVars, detailVars, agentVars>>

StoreMarkStudyNotified(id) ==
    /\ studies' = markStudyNotified(studies, id)
    /\ lastOp' = [op |-> "markStudyNotified", before |-> studies, threw |-> FALSE, id |-> id]
    /\ UNCHANGED <<nextId, emailRecipients, runVars, detailVars, agentVars>>

StoreSyncStudies(ids) ==
    /\ studies' = syncStudies(studies, ids)
    /\ lastOp' = [op |-> "syncStudies", before |-> studies, threw |-> FALSE, ids |-> ids,
                  ret |-> syncStudiesResult(studies, ids)]
    /\ UNCHANGED <<nextId, emailRecipients, runVars, detailVars, agentVars>>

StoreNext ==
    \/ \E x \in ExternalIds, p \in Payouts, n \in BOOLEAN : StoreCreateStudy(x, p, n)
    \/ \E x \in ExternalIds, partial \in Partials : StoreUpdateStudy(x, partial)
    \/ \E id \in 1..MaxRows : StoreMarkStudyNotified(id)
    \/ \E ids \in IdLists : StoreSyncStudies(ids)

StoreSpec == Init /\ [][StoreNext]_vars

\* ----------------------------------------------- one run, step by step
\* RunSpec follows one runCheck execution through the catch block of the
\* scraper and through the for loop of sendStudyNotification, with two
\* recipient addresses.
TheRun == {r \in Runs : r = 1}

Orderings(S) ==
    {sq \in [1..Cardinality(S) -> S] : \A a, b \in 1..Cardinality(S) : sq[a] = sq[b] => a = b}

RunInit ==
    /\ studies = {}
    /\ nextId = 1
    /\ emailRecipients = [e \in Addresses |-> "absent"]
    /\ pc = [r \in Runs |-> "idle"]
    /\ scrapedStudies = [r \in Runs |-> << >>]
    /\ idx = [r \in Runs |-> 0]
    /\ newStudies = [r \in Runs |-> << >>]
    /\ emails = [r \in Runs |-> {}]
    /\ result = [r \in Runs |-> << >>]
    /\ checkLogs = [r \in Runs |-> << >>]
    /\ startedAfter = [r \in Runs |-> {}]
    /\ scrapedIds = [r \in Runs |-> {}]
    /\ notifyCalls = {}
    /\ lastOp = NoOp
    /\ fetchFailed = FALSE
    /\ sendQueue = << >>
    /\ sendIdx = 0
    /\ sendAttempts = [e \in Addresses |-> 0]
    /\ sendFailed = {}
    /\ isRunning = FALSE
    /\ agentInterval = 0
    /\ timers = {}
    /\ agentSettings = << >>
    /\ task = [t \in Calls |-> IdleCall]

\* scraper.ts:143-149  the fetch or the evaluation throws: the scraper
\* writes to the console and returns []; agent.ts:26-29 then ends the run
RunScrapeFailed(r) ==
    /\ pc[r] = "scrape"
    /\ fetchFailed' = TRUE
    /\ scrapedIds' = [scrapedIds EXCEPT ![r] = {}]
    /\ checkLogs' = addLog(checkLogs, r, <<"No studies found on Respondent.io page">>, "info")
    /\ Return(r, << >>)
    /\ UNCHANGED <<studies, nextId, emailRecipients, startedAfter, notifyCalls, lastOp,
                   sendQueue, sendIdx, sendAttempts, sendFailed, agentVars>>

\* email.ts:66-67, 139-142  sendStudyNotification begins: getGmailClient
\* throws and the call returns false (agent.ts:75-77, 82), or the loop begins
SendClient(r) ==
    /\ pc[r] = "send"
    /\ \E to \in Orderings(emails[r]), clientOk \in BOOLEAN :
         /\ sendQueue' = to
         /\ IF clientOk
              THEN /\ pc' = [pc EXCEPT ![r] = "sending"]
                   /\ sendIdx' = 1
                   /\ UNCHANGED <<notifyCalls, checkLogs, result, idx, newStudies, emails,
                                  scrapedStudies>>
              ELSE /\ notifyCalls' = notifyCalls
                         \cup {sendStudyNotification(r, emails[r], newStudies[r], FALSE)}
                   /\ checkLogs' = addLog(checkLogs, r,
                                     <<"Failed to send email notifications">>, "error")
                   /\ Return(r, newStudies[r])
                   /\ sendIdx' = sendIdx
    /\ UNCHANGED <<studies, nextId, emailRecipients, startedAfter, scrapedIds, lastOp,
                   fetchFailed, sendAttempts, sendFailed, agentVars>>

\* variant: a failed send ends the loop
AfterSend_abort(i, sent, n) == IF sent THEN i + 1 ELSE n + 1

\* email.ts:123, 133-135  the catch inside the loop: the next address
\* follows whether the send threw or not
AfterSend(i, sent, n) == i + 1

\* email.ts:123-136  one iteration: gmail.users.messages.send for an address
SendOne(r) ==
    /\ pc[r] = "sending"
    /\ sendIdx <= Len(sendQueue)
    /\ \E sent \in BOOLEAN :
         /\ sendAttempts' = [sendAttempts EXCEPT ![sendQueue[sendIdx]] = @ + 1]
         /\ sendFailed' = IF sent THEN sendFailed ELSE sendFailed \cup {sendQueue[sendIdx]}
         /\ sendIdx' = AfterSend(sendIdx, sent, Len(sendQueue))
    /\ UNCHANGED <<studies, nextId, emailRecipients, runVars, lastOp, fetchFailed, sendQueue, agentVars>>

\* email.ts:138  return true after the loop; agent.ts:69-70
SendReturn(r) ==
    /\ pc[r] = "sending"
    /\ sendIdx > Len(sendQueue)
    /\ notifyCalls' = notifyCalls \cup {sendStudyNotification(r, emails[r], newStudies[r], TRUE)}
    /\ checkLogs' = addLog(checkLogs, r, <<"Email notifications sent successfully">>, "success")
    /\ pc' = [pc EXCEPT ![r] = "mark"]
    /\ idx' = [idx EXCEPT ![r] = 1]
    /\ UNCHANGED <<studies, nextId, emailRecipients, scrapedStudies, newStudies, emails,
                   result, startedAfter, scrapedIds, lastOp, detailVars, agentVars>>

RunNext ==
    \/ \E r \in TheRun : RunStart(r)
    \/ \E r \in TheRun : RunScrape(r)
    \/ \E r \in TheRun : RunScrapeFailed(r)
    \/ \E r \in TheRun : RunLookup(r)
    \/ \E r \in TheRun : RunCreate(r)
    \/ \E r \in TheRun : RunRecipients(r)
    \/ \E r \in TheRun : SendClient(r)
    \/ \E r \in TheRun : SendOne(r)
    \/ \E r \in TheRun : SendReturn(r)
    \/ \E r \in TheRun : RunMark(r)
    \/ \E e \in Addresses, active \in BOOLEAN : addEmailRecipient(e, active)
    \/ \E e \in Addresses, active \in BOOLEAN : toggleEmailRecipient(e, active)
    \/ \E e \in Addresses : removeEmailRecipient(e)

RunSpec == RunInit /\ [][RunNext]_vars

\* ------------------------------------------- one run with a failing log store
\* FaultSpec follows one runCheck execution while storage.addCheckLog may
\* reject: the entry that the last step of the run handed to addLog is then
\* not in the log.  Any number of the entries of a run may be lost.
\* variant: addLog has no try/catch
addLogThrows_uncaught(rejected) == rejected

\* agent.ts:11-15  the catch block of addLog writes the storage error to
\* the console: no error leaves addLog
addLogThrows(rejected) == FALSE

\* agent.ts:12  storage.addCheckLog rejects
LogWriteFails(r) ==
    /\ checkLogs[r] # << >>
    /\ checkLogs' = [checkLogs EXCEPT ![r] = SubSeq(@, 1, Len(@) - 1)]
    /\ IF addLogThrows(TRUE)
         THEN Return(r, << >>)
         ELSE UNCHANGED <<pc, scrapedStudies, idx, newStudies, emails, result>>
    /\ UNCHANGED <<studies, nextId, emailRecipients, startedAfter, scrapedIds, notifyCalls,
                   lastOp, detailVars, agentVars>>

FaultNext ==
    \/ \E r \in TheRun : RunStart(r)
    \/ \E r \in TheRun : RunScrape(r)
    \/ \E r \in TheRun : RunLookup(r)
    \/ \E r \in TheRun : RunCreate(r)
    \/ \E r \in TheRun : RunRecipients(r)
    \/ \E r \in TheRun : RunSend(r)
    \/ \E r \in TheRun : RunMark(r)
    \/ \E r \in TheRun : LogWriteFails(r)
    \/ \E e \in Emails, active \in BOOLEAN : addEmailRecipient(e, active)
    \/ \E e \in Emails, active \in BOOLEAN : toggleEmailRecipient(e, active)
    \/ \E e \in Emails : removeEmailRecipient(e)

FaultSpec == Init /\ [][FaultNext]_vars

\* ------------------------------------------------------------ the scheduler
\* AgentSpec follows the module state of agent.ts (isRunning, agentInterval)
\* and the timers of the event loop through overlapping calls of startAgent,
\* stopAgent, restartAgent, the timer callback and the manual check.  Every
\* `await` is one step.  A runCheck execution is in flight between the step
\* that calls it and EndRun; its own steps are those of Spec.
\* A call is numbered when it begins; call 1 is the start-up call.
Intervals == {10, 5}

\* schema.ts:48-53  the column defaults; lastCheckAt 0 is null
DefaultSettings == [checkIntervalMinutes |-> 10, isActive |-> TRUE, lastCheckAt |-> 0]

\* storage.ts:100-108  the table after getAgentSettings: an empty table
\* receives the default row
getAgentSettingsRows(rows) == IF Len(rows) = 0 THEN <<DefaultSettings>> ELSE rows

\* storage.ts:99-110  the row getAgentSettings returns
getAgentSettings(rows) == getAgentSettingsRows(rows)[1]

\* storage.ts:112-122  update agent_settings set <partial> where id = current.id
updateAgentSettings(rows, partial) ==
    LET current == getAgentSettings(rows)
    IN [getAgentSettingsRows(rows) EXCEPT
          ![1] = [f \in DOMAIN current |-> IF f \in DOMAIN partial THEN partial[f] ELSE current[f]]]

\* new Date(): a time later than the stored one
Now(rows) == getAgentSettings(rows).lastCheckAt + 1

\* routes.ts:114-119  the bodies PATCH /api/settings accepts (a body with
\* isActive alone is also what POST /api/agent/start and /stop write)
SettingsUpdates ==
    {[isActive |-> a] : a \in BOOLEAN}
      \cup {[checkIntervalMinutes |-> m] : m \in Intervals}
      \cup {[isActive |-> a, checkIntervalMinutes |-> m] : a \in BOOLEAN, m \in Intervals}

\* variant: the enabled flag is not looked at
Disabled_never(settings) == FALSE

\* agent.ts:97, 116  !settings?.isActive
Disabled(settings) == ~settings.isActive

\* agent.ts:130-131  clearInterval(agentInterval) of the timers of the loop
clearInterval(live, handle) == {k \in live : k.id # handle}

\* a call at a position, and a call that has ended with an outcome
At(kind, position, minutes) == [kind |-> kind, pc |-> position, minutes |-> minutes]

Ended(outcome) == [kind |-> "none", pc |-> outcome, minutes |-> 0]

\* a request or a timer callback begins as the next call
Begins(t) ==
    /\ t > 1
    /\ task[t].pc = "idle"
    /\ t > 2 => task[t - 1].pc # "idle"

\* routes.ts:180-182  setTimeout(() => startAgent(), 2000)
Startup ==
    /\ task[1].pc = "idle"
    /\ task' = [task EXCEPT ![1] = At("start", "startCheck", 0)]
    /\ UNCHANGED <<isRunning, agentInterval, timers, agentSettings, storeVars>>

\* routes.ts:120-131, 160-161, 171-172  the settings are written, then
\* startAgent, stopAgent or restartAgent is called
Patch(t, data) ==
    /\ agentSettings' = updateAgentSettings(agentSettings, data)
    /\ task' = [task EXCEPT ![t] =
           IF "isActive" \in DOMAIN data
             THEN IF data.isActive THEN At("start", "startCheck", 0)
                                   ELSE At("stop", "stop", 0)
             ELSE At("restart", "stop", 0)]
    /\ UNCHANGED <<isRunning, agentInterval, timers>>

\* routes.ts:112-131, 158-161, 169-172  a settings, start or stop request
PatchSettings(t) ==
    /\ Begins(t)
    /\ \E data \in SettingsUpdates : Patch(t, data)
    /\ UNCHANGED storeVars

\* routes.ts:143-145  POST /api/check calls runCheck
CheckRequest(t) ==
    /\ Begins(t)
    /\ task' = [task EXCEPT ![t] = At("check", "running", 0)]
    /\ UNCHANGED <<isRunning, agentInterval, timers, agentSettings, storeVars>>

\* agent.ts:114-115  a live timer fires: the callback begins
Tick(t) ==
    /\ Begins(t)
    /\ timers # {}
    /\ task' = [task EXCEPT ![t] = At("tick", "tickRead", 0)]
    /\ UNCHANGED <<isRunning, agentInterval, timers, agentSettings, storeVars>>

\* variant: the test of isRunning is missing
AlreadyRunning_never(running) == FALSE

\* agent.ts:91  if (isRunning)
AlreadyRunning(running) == running

\* agent.ts:91-96  startAgent: the test of isRunning, then the settings
\* are requested
StartCheckStep(t) ==
    /\ task[t].pc = "startCheck"
    /\ task' = [task EXCEPT ![t] = IF AlreadyRunning(isRunning)
                                     THEN Ended("already running")
                                     ELSE At("start", "startRead", 0)]
    /\ UNCHANGED <<isRunning, agentInterval, timers, agentSettings>>

StartCheck(t) == StartCheckStep(t) /\ UNCHANGED storeVars

\* agent.ts:96-110  the settings arrive: a disabled agent ends the call,
\* otherwise isRunning is set, the interval is kept and runCheck is called
StartReadStep(t) ==
    /\ task[t].pc = "startRead"
    /\ agentSettings' = getAgentSettingsRows(agentSettings)
    /\ LET settings == getAgentSettings(agentSettings)
       IN IF Disabled(settings)
            THEN /\ task' = [task EXCEPT ![t] = Ended("disabled")]
                 /\ UNCHANGED isRunning
            ELSE /\ isRunning' = TRUE
                 /\ task' = [task EXCEPT ![t] =
                               At("start", "running", settings.checkIntervalMinutes)]
    /\ UNCHANGED <<agentInterval, timers>>

StartRead(t) == StartReadStep(t) /\ UNCHANGED storeVars

\* agent.ts:28, 59, 70, 76, 79, 85  the ways a runCheck execution ends
RunOutcomes ==
    {"no studies", "nothing new", "notified", "notification failed", "no recipients",
     "check failed"}

\* variant: the catch block of runCheck passes the error on
runCheckThrows_rethrow(outcome) == outcome = "check failed"

\* agent.ts:22, 83-87  an error inside runCheck ends in its catch block,
\* which logs it and returns []: the promise of runCheck is never rejected
runCheckThrows(outcome) == FALSE

\* agent.ts:110-111, 122-123, routes.ts:145-146  runCheck returns and
\* lastCheckAt is written
EndRun(t) ==
    /\ task[t].pc = "running"
    /\ \E outcome \in RunOutcomes :
         IF runCheckThrows(outcome)
           THEN /\ task' = [task EXCEPT ![t] = Ended("rejected")]
                /\ UNCHANGED agentSettings
           ELSE /\ agentSettings' =
                      updateAgentSettings(agentSettings, [lastCheckAt |-> Now(agentSettings)])
                /\ task' = [task EXCEPT ![t] =
                      IF task[t].kind = "start" THEN At("start", "schedule", task[t].minutes)
                      ELSE IF task[t].kind = "tick" THEN Ended("ticked")
                      ELSE Ended("checked")]
    /\ UNCHANGED <<isRunning, agentInterval, timers, storeVars>>

\* agent.ts:114-126  agentInterval = setInterval(callback, intervalMs)
ScheduleStep(t) ==
    /\ task[t].pc = "schedule"
    /\ timers' = timers \cup {[id |-> t, minutes |-> task[t].minutes]}
    /\ agentInterval' = t
    /\ task' = [task EXCEPT ![t] = Ended("scheduled")]
    /\ UNCHANGED <<isRunning, agentSettings>>

Schedule(t) == ScheduleStep(t) /\ UNCHANGED storeVars

\* agent.ts:129-136  stopAgent; restartAgent goes on to startAgent (142-145)
StopAgentStep(t) ==
    /\ task[t].pc = "stop"
    /\ timers' = clearInterval(timers, agentInterval)
    /\ agentInterval' = 0
    /\ isRunning' = FALSE
    /\ task' = [task EXCEPT ![t] = IF task[t].kind = "restart"
                                     THEN At("start", "startCheck", 0)
                                     ELSE Ended("stopped")]
    /\ UNCHANGED agentSettings

StopAgent(t) == StopAgentStep(t) /\ UNCHANGED storeVars

\* agent.ts:115-122  the callback has the settings: a disabled agent is
\* stopped, otherwise runCheck is called
TickReadStep(t) ==
    /\ task[t].pc = "tickRead"
    /\ agentSettings' = getAgentSettingsRows(agentSettings)
    /\ IF Disabled(getAgentSettings(agentSettings))
         THEN /\ timers' = clearInterval(timers, agentInterval)
              /\ agentInterval' = 0
              /\ isRunning' = FALSE
              /\ task' = [task EXCEPT ![t] = Ended("stopped by tick")]
         ELSE /\ task' = [task EXCEPT ![t] = At("tick", "running", 0)]
              /\ UNCHANGED <<isRunning, agentInterval, timers>>

TickRead(t) == TickReadStep(t) /\ UNCHANGED storeVars

AgentNext ==
    \/ Startup
    \/ \E t \in Calls : PatchSettings(t)
    \/ \E t \in Calls : CheckRequest(t)
    \/ \E t \in Calls : Tick(t)
    \/ \E t \in Calls : StartCheck(t)
    \/ \E t \in Calls : StartRead(t)
    \/ \E t \in Calls : EndRun(t)
    \/ \E t \in Calls : Schedule(t)
    \/ \E t \in Calls : StopAgent(t)
    \/ \E t \in Calls : TickRead(t)

AgentSpec == Init /\ [][AgentNext]_vars

\* ------------------------------------- the scheduler with recurring callbacks
\* TimerSpec is AgentSpec with timer callbacks that recur for as long as a
\* timer is live: the record of a callback that has returned is dropped, and
\* the last call number is kept for callbacks.  A live timer fires again
\* and again, and every await of a call in flight resolves (weak fairness);
\* requests arrive or not.
Forget(t) ==
    /\ t > 1
    /\ task[t].pc \in {"ticked", "stopped by tick"}
    /\ t < MaxCalls => task[t + 1].pc = "idle"
    /\ task' = [task EXCEPT ![t] = IdleCall]
    /\ UNCHANGED <<isRunning, agentInterval, timers, agentSettings, storeVars>>

Request(t) ==
    /\ t < MaxCalls
    /\ PatchSettings(t) \/ CheckRequest(t)

\* runs of an enabled scheduler are followed up to lastCheckAt = MaxCalls;
\* a callback that finds the scheduler disabled always fires
Fire(t) ==
    /\ Disabled(getAgentSettings(agentSettings))
         \/ getAgentSettings(agentSettings).lastCheckAt < MaxCalls
    /\ Tick(t)

Resume(t) ==
    \/ StartCheck(t)
    \/ StartRead(t)
    \/ EndRun(t)
    \/ Schedule(t)
    \/ StopAgent(t)
    \/ TickRead(t)

TimerNext ==
    \/ Startup
    \/ \E t \in Calls : Request(t)
    \/ \E t \in Calls : Fire(t)
    \/ \E t \in Calls : Resume(t)
    \/ \E t \in Calls : Forget(t)

TimerSpec ==
    /\ Init
    /\ [][TimerNext]_vars
    /\ WF_vars(\E t \in Calls : Fire(t))
    /\ WF_vars(\E t \in Calls : Resume(t))
    /\ WF_vars(\E t \in Calls : Forget(t))

\* ------------------------------------------- the scheduler and its log
\* LogSpec is AgentSpec with the addLog calls of startAgent, stopAgent and
\* the timer callback: lastOp holds the entries that the last step of a call
\* handed to addLog.  The entries of a runCheck execution are those of Spec.
Logged(t, entries) == lastOp' = [op |-> "addLog", call |-> t, entries |-> entries]

LogFrame == UNCHANGED <<studies, nextId, emailRecipients, runVars, detailVars>>

\* agent.ts:92
LogStartCheck(t) ==
    /\ StartCheckStep(t)
    /\ Logged(t, IF AlreadyRunning(isRunning)
                   THEN <<LogEntry(<<"Agent already running">>, "warning")>>
                   ELSE << >>)
    /\ LogFrame

\* agent.ts:98, 105-107
LogStartRead(t) ==
    /\ StartReadStep(t)
    /\ LET settings == getAgentSettings(agentSettings)
       IN Logged(t, IF Disabled(settings)
                      THEN <<LogEntry(<<"Agent is disabled in settings">>, "info")>>
                      ELSE <<LogEntry(<<"Agent started">>, "info"),
                             LogEntry(<<"Check interval", settings.checkIntervalMinutes>>, "info"),
                             LogEntry(<<"Monitoring">>, "info")>>)
    /\ LogFrame

\* agent.ts:126
LogSchedule(t) ==
    /\ ScheduleStep(t)
    /\ Logged(t, <<LogEntry(<<"Next check in", task[t].minutes>>, "info")>>)
    /\ LogFrame

\* agent.ts:135
LogStopAgent(t) ==
    /\ StopAgentStep(t)
    /\ Logged(t, <<LogEntry(<<"Agent stopped">>, "info")>>)
    /\ LogFrame

\* agent.ts:117, 121, 135
LogTickRead(t) ==
    /\ TickReadStep(t)
    /\ LET settings == getAgentSettings(agentSettings)
       IN Logged(t, IF Disabled(settings)
                      THEN <<LogEntry(<<"Agent stopped">>, "info")>>
                      ELSE <<LogEntry(<<"Starting check", settings.checkIntervalMinutes>>, "info")>>)
    /\ LogFrame

\* the calls of a LogSpec behaviour: one fewer than in AgentSpec
LogCalls == 1..(MaxCalls - 1)

LogNext ==
    \/ Startup
    \/ \E t \in LogCalls : PatchSettings(t)
    \/ \E t \in LogCalls : CheckRequest(t)
    \/ \E t \in LogCalls : Tick(t)
    \/ \E t \in LogCalls : LogStartCheck(t)
    \/ \E t \in LogCalls : LogStartRead(t)
    \/ \E t \in LogCalls : EndRun(t)
    \/ \E t \in LogCalls : LogSchedule(t)
    \/ \E t \in LogCalls : LogStopAgent(t)
    \/ \E t \in LogCalls : LogTickRead(t)

LogSpec == Init /\ [][LogNext]_vars

\* ------------------------------------------------- the scheduler, call by call
\* CallSpec takes the calls of AgentSpec one after the other (a call begins
\* when no other is in flight), keeps the body of the last settings request
\* in lastOp, and lets the storage calls of the timer callback throw.
Quiet == \A t \in Calls : task[t].kind = "none"

CallStartup == Quiet /\ Startup

\* routes.ts:112-131  PATCH /api/settings with its body
CallPatch(t) ==
    /\ Quiet
    /\ Begins(t)
    /\ \E data \in SettingsUpdates :
         /\ Patch(t, data)
         /\ lastOp' = [op |-> "PATCH", call |-> t, data |-> data, wasRunning |-> isRunning,
                       timer |-> agentInterval,
                       before |-> getAgentSettings(agentSettings).checkIntervalMinutes]
    /\ UNCHANGED <<studies, nextId, emailRecipients, runVars, detailVars>>

CallCheck(t) == Quiet /\ CheckRequest(t)

CallTick(t) == Quiet /\ Tick(t)

\* agent.ts:115  getAgentSettings throws inside the callback: nothing
\* catches it, the promise of the callback is rejected
TickReadThrows(t) ==
    /\ task[t].pc = "tickRead"
    /\ task' = [task EXCEPT ![t] = Ended("rejected")]
    /\ UNCHANGED <<isRunning, agentInterval, timers, agentSettings, storeVars>>

\* agent.ts:122-123  runCheck has returned and updateAgentSettings throws
\* inside the callback: nothing catches it
TickWriteThrows(t) ==
    /\ task[t].pc = "running"
    /\ task[t].kind = "tick"
    /\ task' = [task EXCEPT ![t] = Ended("rejected")]
    /\ UNCHANGED <<isRunning, agentInterval, timers, agentSettings, storeVars>>

CallNext ==
    \/ CallStartup
    \/ \E t \in Calls : CallPatch(t)
    \/ \E t \in Calls : CallCheck(t)
    \/ \E t \in Calls : CallTick(t)
    \/ \E t \in Calls : StartCheck(t)
    \/ \E t \in Calls : StartRead(t)
    \/ \E t \in Calls : EndRun(t)
    \/ \E t \in Calls : Schedule(t)
    \/ \E t \in Calls : StopAgent(t)
    \/ \E t \in Calls : TickRead(t)
    \/ \E t \in Calls : TickReadThrows(t)
    \/ \E t \in Calls : TickWriteThrows(t)

CallSpec == Init /\ [][CallNext]_vars

\* ------------------------------------------------- the settings table
\* SettingsSpec follows overlapping getAgentSettings and updateAgentSettings
\* calls statement by statement on the table, which is empty at first: the
\* select, the insert of the default row and the update are separate
\* statements with an await between them.
\* number of storage calls of a SettingsSpec behaviour; they may all overlap
MaxQueries == 3
Queries == 1..MaxQueries

Query(kind, position, row, partial) ==
    [kind |-> kind, pc |-> position, row |-> row, partial |-> partial]

\* the arguments of updateAgentSettings: a request body or the timestamp
SettingsPartials == SettingsUpdates \cup {[lastCheckAt |-> 1]}

QueryBegins(t) ==
    /\ task[t].pc = "idle"
    /\ t > 1 => task[t - 1].pc # "idle"

SettingsFrame == UNCHANGED <<isRunning, agentInterval, timers, storeVars>>

\* storage.ts:99  getAgentSettings is called
GetSettings(t) ==
    /\ QueryBegins(t)
    /\ task' = [task EXCEPT ![t] = Query("get", "select", 0, << >>)]
    /\ UNCHANGED agentSettings
    /\ SettingsFrame

\* storage.ts:112-113  updateAgentSettings is called and calls getAgentSettings
UpdateSettings(t) ==
    /\ QueryBegins(t)
    /\ \E partial \in SettingsPartials :
         task' = [task EXCEPT ![t] = Query("update", "select", 0, partial)]
    /\ UNCHANGED agentSettings
    /\ SettingsFrame

\* the caller of getAgentSettings goes on with the row it received
Received(t, row) ==
    IF task[t].kind = "get" THEN Ended("returned")
                           ELSE Query("update", "write", row, task[t].partial)

\* storage.ts:100-101, 109  db.select().from(agentSettings) and the test of
\* result.length
SelectSettings(t) ==
    /\ task[t].pc = "select"
    /\ task' = [task EXCEPT ![t] =
           IF Len(agentSettings) = 0
             THEN Query(task[t].kind, "insert", 0, task[t].partial)
             ELSE Received(t, 1)]
    /\ UNCHANGED agentSettings
    /\ SettingsFrame

\* storage.ts:102-107  db.insert(agentSettings).values(defaults).returning()
InsertSettings(t) ==
    /\ task[t].pc = "insert"
    /\ agentSettings' = Append(agentSettings, DefaultSettings)
    /\ task' = [task EXCEPT ![t] = Received(t, Len(agentSettings) + 1)]
    /\ SettingsFrame

\* storage.ts:117-121  db.update(agentSettings).set(settings).where(id = current.id)
WriteSettings(t) ==
    /\ task[t].pc = "write"
    /\ agentSettings' =
          [agentSettings EXCEPT ![task[t].row] =
              [f \in DOMAIN @ |-> IF f \in DOMAIN task[t].partial THEN task[t].partial[f]
                                                                 ELSE @[f]]]
    /\ task' = [task EXCEPT ![t] = Ended("returned")]
    /\ SettingsFrame

SettingsNext ==
    \/ \E t \in Queries : GetSettings(t)
    \/ \E t \in Queries : UpdateSettings(t)
    \/ \E t \in Queries : SelectSettings(t)
    \/ \E t \in Queries : InsertSettings(t)
    \/ \E t \in Queries : WriteSettings(t)

SettingsSpec == Init /\ [][SettingsNext]_vars

\* -------------------------------------------------- the text functions
\* TextSpec applies the functions that turn the page into candidates and a
\* batch into a digest, one call at a time on arbitrary inputs; lastOp holds
\* the call, its argument and what it returned.

\* a piece of card text: a word, or a match of /\$(\d+(?:\.\d{2})?)/ with
\* its digits (cents -1: the match has no decimals)
Word == [kind |-> "word"]

Dollar(dollars, cents) == [kind |-> "amount", dollars |-> dollars, cents |-> cents]

CardTokens == {Word} \cup {Dollar(d, c) : d \in {50, 120, 200}, c \in {-1, 0, 50}}

CardTexts == UNION {[1..n -> CardTokens] : n \in 0..MaxTokens}

\* Math.round(parseFloat(match[1])): halves round up
RoundAmount(token) ==
    IF token.cents < 0 THEN token.dollars
                       ELSE (token.dollars * 100 + token.cents + 50) \div 100

AmountsAt(cardText) == {i \in 1..Len(cardText) : cardText[i].kind = "amount"}

\* variant: the last match of the pattern
payout_last(cardText) ==
    IF AmountsAt(cardText) = {}
      THEN 0
      ELSE RoundAmount(cardText[CHOOSE i \in AmountsAt(cardText) :
                                    \A j \in AmountsAt(cardText) : j <= i])

\* scraper.ts:93-94  String.match without the g flag: the first match
payout(cardText) ==
    IF AmountsAt(cardText) = {}
      THEN 0
      ELSE RoundAmount(cardText[CHOOSE i \in AmountsAt(cardText) :
                                    \A j \in AmountsAt(cardText) : i <= j])

\* the phrases a card text may hold; a text is the set of those it holds
Phrases ==
    {"one-on-one", "1-on-1", "1:1", "unmoderated", "moderated", "focus group", "survey",
     "video survey", "interview", "diary", "journal", "usability", "ux test"}

\* phrases that occur inside another phrase
Within == {<<"moderated", "unmoderated">>, <<"survey", "video survey">>}

\* String.includes on the lower-cased text
includes(text, s) == \E p \in text : p = s \/ <<s, p>> \in Within

\* unnamed/part_001:152-169  the if / else-if chain of the format tag
studyFormat(allText) ==
    IF includes(allText, "one-on-one") \/ includes(allText, "1-on-1") \/ includes(allText, "1:1")
      THEN "One-on-One"
    ELSE IF includes(allText, "unmoderated") THEN "Unmoderated"
    ELSE IF includes(allText, "moderated") /\ ~includes(allText, "unmoderated") THEN "Moderated"
    ELSE IF includes(allText, "focus group") THEN "Focus Group"
    ELSE IF includes(allText, "survey") /\ ~includes(allText, "video survey") THEN "Survey"
    ELSE IF includes(allText, "interview") THEN "Interview"
    ELSE IF includes(allText, "diary") \/ includes(allText, "journal") THEN "Diary Study"
    ELSE IF includes(allText, "usability") \/ includes(allText, "ux test") THEN "Usability Test"
    ELSE ""

\* scraper.ts:110-113  the format tag of the module agent.ts imports
studyFormatOfScraper(cardText) ==
    IF includes(cardText, "one-on-one") \/ includes(cardText, "1-on-1") THEN "One-on-One"
    ELSE IF includes(cardText, "focus group") THEN "Focus Group"
    ELSE IF includes(cardText, "survey") THEN "Survey"
    ELSE ""

\* an anchor of the page in document order: the id its href holds ("" when
\* /\/view\/([a-f0-9]+)/ does not match) and its text
Anchor(externalId, title) == [externalId |-> externalId, title |-> title]

Anchors == {Anchor(x, t) : x \in ExternalIds \cup {""}, t \in {"first", "other"}}

Pages == UNION {[1..n -> Anchors] : n \in 0..MaxAnchors}

\* variant: a later anchor replaces the candidate of an earlier one
AvoidDuplicates_replace(results, candidate) ==
    IF candidate.externalId = ""
      THEN results
      ELSE IF \E k \in 1..Len(results) : results[k].externalId = candidate.externalId
             THEN [k \in 1..Len(results) |->
                     IF results[k].externalId = candidate.externalId THEN candidate
                                                                     ELSE results[k]]
             ELSE Append(results, candidate)

\* scraper.ts:76-77, 119-132  one anchor: skipped without an id, pushed
\* unless results holds its externalId already
AvoidDuplicates(results, candidate) ==
    IF candidate.externalId = ""
      THEN results
      ELSE IF \E k \in 1..Len(results) : results[k].externalId = candidate.externalId
             THEN results
             ELSE Append(results, candidate)

RECURSIVE forEach(_, _, _)
\* scraper.ts:74-133  projectLinks.forEach from the i-th anchor on
forEach(projectLinks, i, results) ==
    IF i > Len(projectLinks)
      THEN results
      ELSE forEach(projectLinks, i + 1, AvoidDuplicates(results, projectLinks[i]))

\* scraper.ts:58-136  page.evaluate
evaluate(projectLinks) == forEach(projectLinks, 1, << >>)

\* a batch of n records
Batch(n) == [k \in 1..n |-> k]

\* email.ts:69-83, 100, 119  the rows of the table and the count of the
\* subject and of the heading
emailDigest(batch) == [header |-> Len(batch), listed |-> batch]

\* unnamed/part_002:12-19  studies.slice(0, 10) and the count of the title
discordDigest(batch) ==
    [header |-> Len(batch),
     listed |-> SubSeq(batch, 1, IF Len(batch) < DigestCap THEN Len(batch) ELSE DigestCap)]

Called(op, arg, ret) == [op |-> op, arg |-> arg, ret |-> ret]

\* one call in a behaviour: the functions keep no state
TextFrame == UNCHANGED <<studies, nextId, emailRecipients, runVars, detailVars, agentVars>>

ParsePayout ==
    /\ lastOp = NoOp
    /\ \E cardText \in CardTexts : lastOp' = Called("payout", cardText, payout(cardText))
    /\ TextFrame

ParseStudyFormat ==
    /\ lastOp = NoOp
    /\ \E text \in SUBSET Phrases : lastOp' = Called("studyFormat", text, studyFormat(text))
    /\ TextFrame

ParseStudyFormatOfScraper ==
    /\ lastOp = NoOp
    /\ \E text \in SUBSET Phrases :
         lastOp' = Called("studyFormatOfScraper", text, studyFormatOfScraper(text))
    /\ TextFrame

Evaluate ==
    /\ lastOp = NoOp
    /\ \E projectLinks \in Pages :
         lastOp' = Called("evaluate", projectLinks, evaluate(projectLinks))
    /\ TextFrame

EmailDigest ==
    /\ lastOp = NoOp
    /\ \E n \in 0..MaxBatch : lastOp' = Called("emailDigest", Batch(n), emailDigest(Batch(n)))
    /\ TextFrame

DiscordDigest ==
    /\ lastOp = NoOp
    /\ \E n \in 0..MaxBatch : lastOp' = Called("discordDigest", Batch(n), discordDigest(Batch(n)))
    /\ TextFrame

TextNext ==
    \/ ParsePayout
    \/ ParseStudyFormat
    \/ ParseStudyFormatOfScraper
    \/ Evaluate
    \/ EmailDigest
    \/ DiscordDigest

TextSpec == Init /\ [][TextNext]_vars

\* ================================================================= claims
\* the run ended in the catch block of runCheck
Failed(r) ==
    \E k \in 1..Len(checkLogs[r]) :
        checkLogs[r][k].logType = "error" /\ checkLogs[r][k].message[1] = "Check failed"

LastLog(r) == checkLogs[r][Len(checkLogs[r])]

StoredIds == {s.externalId : s \in studies}

\* C1: no run deletes a record, and every externalId is in the batch of at
\* most one sendStudyNotification call, whatever the overlap of the runs.
C1_AtMostOnceNotification ==
    \A x \in ExternalIds :
        Cardinality({c \in notifyCalls : \E b \in c.batch : b.externalId = x}) <= 1

\* two runs that extracted a common identity have both made their call
C1_Witness ==
    \E c1, c2 \in notifyCalls :
        /\ c1.run # c2.run
        /\ scrapedIds[c1.run] \cap scrapedIds[c2.run] # {}

\* C2: a stored record is notified only if a call whose batch held it
\* returned success, and a notified record stays notified.
C2_NotifiedAfterSuccess ==
    \A s \in studies :
        s.notified => \E c \in notifyCalls : c.success /\ \E b \in c.batch : b.id = s.id

C2_NotifiedIsStable ==
    \A s \in studies : s.notified => \A t \in studies' : t.id = s.id => t.notified

C2_NotifiedOnlyOnSuccess == []C2_NotifiedAfterSuccess /\ [][C2_NotifiedIsStable]_vars

\* a notified record next to one whose notification failed
C2_Witness ==
    /\ \E s \in studies : s.notified
    /\ \E s \in studies : ~s.notified
    /\ \E c \in notifyCalls : ~c.success
    /\ \A r \in Runs : pc[r] = "done"

\* C3: no two stored records share an externalId, under every interleaving
\* of overlapping runs, and a stored record keeps its externalId.
C3_UniqueExternalId ==
    \A s, t \in studies : s.externalId = t.externalId => s = t

C3_ExternalIdIsStable ==
    \A s \in studies : \A t \in studies' : t.id = s.id => t.externalId = s.externalId

C3_ExternalIdUniqueAndStable == []C3_UniqueExternalId /\ [][C3_ExternalIdIsStable]_vars

\* two runs found the same identity absent and both go on to insert it
C3_Witness ==
    \E r, q \in Runs :
        /\ r # q
        /\ pc[r] = "create" /\ pc[q] = "create"
        /\ scrapedStudies[r][idx[r]].externalId = scrapedStudies[q][idx[q]].externalId

\* the insert of run r is rejected by the UNIQUE constraint
LosesInsert(r) ==
    /\ pc[r] = "create"
    /\ UniqueViolation(studies, scrapedStudies[r][idx[r]].externalId)
    /\ RunCreate(r)

\* C4: the run that loses the insert of an identity appends no error entry
\* and goes on with its remaining candidates and its notification step.
C4_CollisionIsBenign ==
    [][\A r \in Runs :
         LosesInsert(r) => /\ pc'[r] = "lookup"
                           /\ ~Failed(r)'
                           /\ newStudies'[r] = newStudies[r]]_vars

\* run r began after a run that had returned normally with the same
\* candidate identities
Rerun(r) ==
    \E q \in startedAfter[r] : ~Failed(q) /\ scrapedIds[q] = scrapedIds[r]

\* C5: a run that follows a completed run with the same candidate set
\* inserts nothing: none of its steps changes the store, it does not fail,
\* and it returns the empty list after "All studies already known".
C5_ReconcileIdempotent ==
    [][\A r \in Runs :
         (runCheck(r) /\ Rerun(r)')
            => /\ studies' = studies
               /\ ~Failed(r)'
               /\ pc'[r] = "done" =>
                    /\ result'[r] = << >>
                    /\ scrapedIds'[r] # {} =>
                         LastLog(r)'.message[1] = "All studies already known - no new matches"]_vars

\* the second of two runs with the same non-empty candidate set has
\* returned, the first having inserted both records
C5_Witness ==
    \E r \in Runs :
        /\ pc[r] = "done"
        /\ scrapedIds[r] = ExternalIds
        /\ \E q \in startedAfter[r] :
             ~Failed(q) /\ scrapedIds[q] = scrapedIds[r] /\ Len(result[q]) = 2

\* C6: a run with no new record makes no notification call and changes no
\* stored record, whatever the recipients are: while the run has created
\* nothing its steps leave the store and the calls as they are, and after
\* the loop it returns the empty list at once.
C6_NothingNewNoNotification ==
    [][\A r \in Runs :
         (runCheck(r) /\ newStudies[r] = << >> /\ newStudies'[r] = << >>)
            => /\ studies' = studies
               /\ notifyCalls' = notifyCalls
               /\ pc'[r] \notin {"send", "mark"}
               /\ (pc[r] = "lookup" /\ idx[r] > Len(scrapedStudies[r]))
                     => (pc'[r] = "done" /\ result'[r] = << >>)]_vars

\* a run found every candidate stored and returned while a recipient was
\* active and records were still unnotified
C6_Witness ==
    \E r \in Runs :
        /\ pc[r] = "done"
        /\ scrapedIds[r] = ExternalIds
        /\ LastLog(r).message[1] = "All studies already known - no new matches"
        /\ getActiveEmailRecipients(emailRecipients) # {}
        /\ \E s \in studies : ~s.notified

\* C7: a step of a run leaves every stored record that this run did not
\* create as it is, all fields included; the lookup that finds a candidate
\* stored changes nothing at all.
C7_ExistingRecordUntouched ==
    [][\A r \in Runs :
         runCheck(r)
            => /\ \A s \in studies : s.id \notin IdsOf(newStudies[r]) => s \in studies'
               /\ (pc[r] = "lookup" /\ idx[r] <= Len(scrapedStudies[r])
                     /\ scrapedStudies[r][idx[r]].externalId \in StoredIds)
                    => studies' = studies]_vars

\* a run has passed a candidate whose record is stored with another
\* payout and with the notified flag set
C7_Witness ==
    \E r \in Runs : \E s \in studies :
        /\ pc[r] = "lookup"
        /\ idx[r] = 2
        /\ scrapedStudies[r][1] = ScrapedStudy(s.externalId, 200)
        /\ s.payout = 150
        /\ s.notified
        /\ newStudies[r] = << >>

\* run r is at the end of its loop with new records and no recipient is active
NoRecipientForNew(r) ==
    /\ pc[r] = "lookup"
    /\ idx[r] > Len(scrapedStudies[r])
    /\ newStudies[r] # << >>
    /\ \A e \in Emails : emailRecipients[e] # "active"

NoRecipientsEntry == LogEntry(<<"No active email recipients configured">>, "warning")

\* the run returned after finding no active recipient
EndedWithoutRecipients(r) ==
    pc[r] = "done" /\ LastLog(r) = NoRecipientsEntry

C13_StepWithoutRecipients ==
    \A r \in Runs :
        (runCheck(r) /\ NoRecipientForNew(r))
           => /\ notifyCalls' = notifyCalls
              /\ studies' = studies
              /\ checkLogs'[r] = Append(checkLogs[r], NoRecipientsEntry)
              /\ pc'[r] = "done"
              /\ result'[r] = newStudies[r]
              /\ \A k \in 1..Len(result'[r]) : ~result'[r][k].notified

C13_AfterNoRecipients ==
    \A r \in Runs :
        EndedWithoutRecipients(r)
           => /\ ~Failed(r)
              /\ result[r] # << >>
              /\ \A c \in notifyCalls : c.run # r
              /\ \A s \in studies : s.id \in IdsOf(result[r]) => ~s.notified

\* the stored rows of a batch
StoredOf(batch) == {s \in studies : \E b \in batch : b.id = s.id}

\* the call of run r failed: it returned false, or a send of it threw
NotificationFailed(r, c) == c.run = r /\ (~c.success \/ sendFailed # {})

\* C11: after a notification that failed, by a rejected batch or by a
\* failed send to a recipient, the records of the batch are still
\* notified=false and the run has returned its new records.
C11_FailedBatchStaysUnnotified ==
    \A r \in Runs : \A c \in notifyCalls :
        (pc[r] = "done" /\ NotificationFailed(r, c))
           => /\ \A s \in StoredOf(c.batch) : ~s.notified
              /\ SeqToSet(result[r]) = c.batch

\* C12 as stated: once the call has returned, every address of its list
\* has had exactly one send attempt, and a failed send has not made the
\* call return false.
C12_EveryRecipientOnce ==
    \A c \in notifyCalls :
        /\ \A e \in SeqToSet(sendQueue) : sendAttempts[e] = 1
        /\ sendFailed # {} => c.success

\* C12 amended: a call that obtains the Gmail client attempts every address
\* of its list exactly once, in list order, whether earlier sends threw or
\* not, and returns true; no address is attempted twice and none outside
\* the list; a call that cannot obtain the client attempts no send and
\* returns false.
C12_EveryRecipientOnceWithClient ==
    /\ \A e \in Addresses :
         /\ sendAttempts[e] <= 1
         /\ sendAttempts[e] = 1 => e \in SeqToSet(sendQueue)
    /\ sendFailed \subseteq {e \in Addresses : sendAttempts[e] = 1}
    /\ \A r \in Runs : pc[r] = "sending" =>
         \A k \in 1..Len(sendQueue) : sendAttempts[sendQueue[k]] = (IF k < sendIdx THEN 1 ELSE 0)
    /\ \A c \in notifyCalls :
         IF c.success
           THEN \A e \in SeqToSet(sendQueue) : sendAttempts[e] = 1
           ELSE \A e \in Addresses : sendAttempts[e] = 0

\* a call to two addresses has returned true, the send to the first having
\* thrown and the send to the second not
C12_Witness ==
    /\ \E c \in notifyCalls : c.success
    /\ Len(sendQueue) = 2
    /\ sendFailed = {sendQueue[1]}

\* C15: a fetch failure yields zero candidates, the run ends without
\* insert or notification, and the log holds an entry that records a failure.
C15_FetchFailureLogged ==
    \A r \in Runs :
        (pc[r] = "done" /\ fetchFailed)
           => /\ scrapedIds[r] = {}
              /\ result[r] = << >>
              /\ studies = {}
              /\ notifyCalls = {}
              /\ \E k \in 1..Len(checkLogs[r]) : checkLogs[r][k].logType \in {"error", "warning"}

\* C13: a run that created records while no recipient is active makes no
\* notification call, appends the "No active email recipients" entry, does
\* not fail and returns the new records, which stay notified=false.
C13_NoRecipientsNoCall == []C13_AfterNoRecipients /\ [][C13_StepWithoutRecipients]_vars

\* a run created both records and returned them while the only recipient
\* was inactive
C13_Witness ==
    \E r \in Runs :
        /\ EndedWithoutRecipients(r)
        /\ Len(result[r]) = 2
        /\ \E e \in Emails : emailRecipients[e] = "inactive"

NoStudiesEntry == LogEntry(<<"No studies found on Respondent.io page">>, "info")

\* C14: a run that obtains zero candidates changes no stored record, makes
\* no notification call, appends the "No studies found" entry after its
\* start entry and returns the empty list; the scrape step ends the run.
C14_ZeroCandidatesNoEffect ==
    [][\A r \in Runs :
         (runCheck(r) /\ scrapedIds'[r] = {})
            => /\ studies' = studies
               /\ notifyCalls' = notifyCalls
               /\ pc[r] = "scrape"
                    => /\ pc'[r] = "done"
                       /\ result'[r] = << >>
                       /\ checkLogs'[r] = Append(checkLogs[r], NoStudiesEntry)
                       /\ Len(checkLogs'[r]) = 2]_vars

\* a run got zero candidates while the store held an unnotified record and
\* a recipient was active
C14_Witness ==
    \E r \in Runs :
        /\ pc[r] = "done"
        /\ scrapedIds[r] = {}
        /\ LastLog(r) = NoStudiesEntry
        /\ \E s \in studies : ~s.notified
        /\ \E e \in Emails : emailRecipients[e] = "active"

\* C16: runCheck returns exactly the records that this run inserted,
\* whatever its outcome.
C16_ReturnsWhatItInserted ==
    [][\A r \in Runs :
         (runCheck(r) /\ pc'[r] = "done") => result'[r] = newStudies[r]]_vars

\* C8: syncStudies called with an empty id list deletes no record and
\* returns 0, whatever the table holds.
C8_SyncEmptyIsNoOp ==
    (lastOp.op = "syncStudies" /\ Len(lastOp.ids) = 0)
        => (studies = lastOp.before /\ lastOp.ret = 0 /\ ~lastOp.threw)

\* an empty-list call on a table that holds rows
C8_Witness ==
    /\ lastOp.op = "syncStudies"
    /\ Len(lastOp.ids) = 0
    /\ Cardinality(lastOp.before) >= 2

\* C9: for a non-empty id list syncStudies removes exactly the rows whose
\* externalId is not in the list, leaves the listed rows as they were, and
\* returns the number of rows removed.
C9_SyncRemovesAbsent ==
    (lastOp.op = "syncStudies" /\ Len(lastOp.ids) > 0)
        => LET listed  == {lastOp.ids[a] : a \in 1..Len(lastOp.ids)}
               removed == lastOp.before \ studies
           IN /\ studies \subseteq lastOp.before
              /\ \A s \in lastOp.before : (s \in removed) <=> (s.externalId \notin listed)
              /\ lastOp.ret = Cardinality(removed)

\* a call that removes one row and keeps another
C9_Witness ==
    /\ lastOp.op = "syncStudies"
    /\ Len(lastOp.ids) > 0
    /\ lastOp.ret = 1
    /\ studies # {}

\* C10: markStudyNotified on a row whose notified flag is already true
\* leaves the table unchanged and raises no error, and a second call has the
\* same result as the first.
C10_MarkIdempotent ==
    /\ (lastOp.op = "markStudyNotified"
          /\ \E s \in lastOp.before : s.id = lastOp.id /\ s.notified)
         => (studies = lastOp.before /\ ~lastOp.threw)
    /\ \A id \in 1..MaxRows :
         markStudyNotified(markStudyNotified(studies, id), id) = markStudyNotified(studies, id)
    /\ lastOp.op = "markStudyNotified"
         => /\ markStudyNotified(studies, lastOp.id) = studies
            /\ \A s \in studies : s.id = lastOp.id => s.notified

\* a call on a row that a call before had marked, next to an unmarked row
C10_Witness ==
    /\ lastOp.op = "markStudyNotified"
    /\ \E s \in lastOp.before : s.id = lastOp.id /\ s.notified
    /\ \E s \in studies : ~s.notified

\* runCheck executions in flight, and those among them that the timer
\* callback or the initial run of startAgent began
InFlight == {t \in Calls : task[t].pc = "running"}

TimerDriven == {t \in InFlight : task[t].kind \in {"tick", "start"}}

\* C17 (first part): isRunning goes from false to true only in the step of
\* a startAgent call in which the settings it reads have isActive = true.
C17_RunningOnlyByEnabledStart ==
    (~isRunning /\ isRunning')
       => \E t \in Calls : /\ task[t].pc = "startRead"
                           /\ task'[t].pc = "running"
                           /\ getAgentSettings(agentSettings).isActive

\* C17 (second part): the step of a startAgent call that reads
\* isActive = false ends the call and changes neither isRunning nor the
\* timer handle nor the live timers nor the runs in flight.
C17_DisabledStartHasNoEffect ==
    \A t \in Calls :
        (task[t].pc = "startRead" /\ task'[t] # task[t]
                                  /\ ~getAgentSettings(agentSettings).isActive)
           => /\ task'[t] = Ended("disabled")
              /\ isRunning' = isRunning
              /\ agentInterval' = agentInterval
              /\ timers' = timers
              /\ InFlight' = InFlight

\* C17 (third part): stopAgent, called by a request or by the timer
\* callback, leaves isRunning false and the timer handle null, and the timer
\* the handle held is no longer live.
C17_StopLeavesStopped ==
    \A t \in Calls :
        (task'[t] # task[t] /\ (task[t].pc = "stop" \/ task'[t] = Ended("stopped by tick")))
           => /\ ~isRunning'
              /\ agentInterval' = 0
              /\ \A k \in timers' : k.id # agentInterval

\* C17: the scheduler goes from Stopped to Running only through a start
\* that reads settings.isActive = true; a start that reads isActive = false
\* leaves it as it is, creates no timer and performs no run; stop always
\* leaves it Stopped with the timer handle cleared.
C17_StartStopLifecycle ==
    /\ [][C17_RunningOnlyByEnabledStart]_vars
    /\ [][C17_DisabledStartHasNoEffect]_vars
    /\ [][C17_StopLeavesStopped]_vars

\* a started scheduler was stopped and a later start found it disabled
C17_Witness ==
    /\ \E t \in Calls : task[t] = Ended("scheduled")
    /\ \E t \in Calls : task[t] = Ended("stopped")
    /\ \E t \in Calls : task[t] = Ended("disabled")
    /\ ~isRunning
    /\ timers = {}

\* C18: at every reachable state at most one interval timer is live, and
\* every live timer is the one whose handle agentInterval holds.
C18_SingleLiveTimer ==
    /\ Cardinality(timers) <= 1
    /\ \A k \in timers : k.id = agentInterval

\* C19: while isRunning is true at most one run begun by a timer callback
\* or by the initial run of startAgent is in flight.
C19_OneTimerDrivenRun == isRunning => Cardinality(TimerDriven) <= 1

\* C20: at most two runCheck executions are in flight at the same time.
C20_AtMostTwoInFlight == Cardinality(InFlight) <= 2

\* C27: a digest message lists at most 10 of the given records and its
\* header reports the number of records given.
C27_DigestCappedTrueCount ==
    lastOp.op \in {"emailDigest", "discordDigest"}
       => /\ Len(lastOp.ret.listed) <= DigestCap
          /\ SeqToSet(lastOp.ret.listed) \subseteq SeqToSet(lastOp.arg)
          /\ lastOp.ret.header = Len(lastOp.arg)

\* the first anchor of the page that carries the id
FirstAnchor(projectLinks, externalId) ==
    CHOOSE i \in 1..Len(projectLinks) :
        /\ projectLinks[i].externalId = externalId
        /\ \A j \in 1..(i - 1) : projectLinks[j].externalId # externalId

\* C28: the candidate list of one extraction pass holds each externalId at
\* most once, and the candidate of an externalId is the one of the first
\* anchor of the page that carries it.
C28_FirstOccurrenceWins ==
    lastOp.op = "evaluate"
       => /\ DistinctIds(lastOp.ret)
          /\ \A k \in 1..Len(lastOp.ret) :
                /\ lastOp.ret[k].externalId \in ExternalIdsOf(lastOp.arg) \ {""}
                /\ lastOp.ret[k] = lastOp.arg[FirstAnchor(lastOp.arg, lastOp.ret[k].externalId)]
          /\ ExternalIdsOf(lastOp.arg) \ {""} \subseteq ExternalIdsOf(lastOp.ret)

\* a page that shows a listing at two anchors with different text
C28_Witness ==
    /\ lastOp.op = "evaluate"
    /\ \E i, j \in 1..Len(lastOp.arg) :
         /\ i < j
         /\ lastOp.arg[i].externalId = lastOp.arg[j].externalId
         /\ lastOp.arg[i].externalId # ""
         /\ lastOp.arg[i].title # lastOp.arg[j].title
    /\ Len(lastOp.ret) = 2

\* the largest rounded amount of a card text, 0 without a currency token
MaxAmount(cardText) ==
    IF AmountsAt(cardText) = {}
      THEN 0
      ELSE CHOOSE m \in {RoundAmount(cardText[i]) : i \in AmountsAt(cardText)} :
               \A i \in AmountsAt(cardText) : RoundAmount(cardText[i]) <= m

\* C29: the extracted amount of a card is the maximum of all currency
\* amounts of its text, rounded, and 0 when the text has no currency token.
C29_AmountIsMaximum == lastOp.op = "payout" => lastOp.ret = MaxAmount(lastOp.arg)

\* the priority order of the format tags: a tag matches a text that holds
\* one of `any` and none of `none`
FormatOrder ==
    << [tag |-> "One-on-One", any |-> {"one-on-one", "1-on-1", "1:1"}, none |-> {}],
       [tag |-> "Unmoderated", any |-> {"unmoderated"}, none |-> {}],
       [tag |-> "Moderated", any |-> {"moderated"}, none |-> {}],
       [tag |-> "Focus Group", any |-> {"focus group"}, none |-> {}],
       [tag |-> "Survey", any |-> {"survey"}, none |-> {"video survey"}],
       [tag |-> "Interview", any |-> {"interview"}, none |-> {}],
       [tag |-> "Diary Study", any |-> {"diary", "journal"}, none |-> {}],
       [tag |-> "Usability Test", any |-> {"usability", "ux test"}, none |-> {}] >>

Matching(text) ==
    {k \in 1..Len(FormatOrder) :
        /\ \E s \in FormatOrder[k].any : includes(text, s)
        /\ \A s \in FormatOrder[k].none : ~includes(text, s)}

FirstMatch(text) ==
    IF Matching(text) = {}
      THEN ""
      ELSE FormatOrder[CHOOSE k \in Matching(text) : \A l \in Matching(text) : k <= l].tag

\* C30: the format tag is the first matching entry of the priority order
\* one-on-one, unmoderated, moderated, focus group, survey (not video
\* survey), interview, diary/journal, usability/UX test, and empty when none
\* matches.
C30_FormatPriority ==
    lastOp.op \in {"studyFormat", "studyFormatOfScraper"} => lastOp.ret = FirstMatch(lastOp.arg)

\* the last-run timestamp of the settings
lastCheckAt == getAgentSettings(agentSettings).lastCheckAt

\* C22 (first part): a timer callback calls runCheck only while isRunning
\* is true, that is, not between a stopAgent and the next startAgent that
\* gets as far as setting isRunning.
C22_TickRunsOnlyWhileRunning ==
    \A t \in Calls : (task[t].pc = "tickRead" /\ task'[t].pc = "running") => isRunning

\* C22 (second part): stopAgent leaves the runs in flight as they are.
C22_StopAbortsNoRun ==
    \A t \in Calls :
        (task'[t] # task[t] /\ (task[t].pc = "stop" \/ task'[t] = Ended("stopped by tick")))
           => \A u \in Calls \ {t} : task'[u] = task[u]

\* C22: after stopAgent no timer-driven run starts until a later start
\* succeeds, also when the stop arrives during the initial run of a start;
\* a run in progress at the stop is not aborted.
C22_NoRunAfterStop ==
    /\ [][C22_TickRunsOnlyWhileRunning]_vars
    /\ [][C22_StopAbortsNoRun]_vars

\* C23: the timer callback acts on the settings as they are when it reads
\* them: with isActive true it calls runCheck; with isActive false it calls
\* no runCheck, leaves lastCheckAt as it is and leaves isRunning false and
\* the timer handle null.
C23_TickStep ==
    \A t \in Calls :
        (task[t].pc = "tickRead" /\ task'[t] # task[t])
           => IF getAgentSettings(agentSettings).isActive
                THEN task'[t].pc = "running"
                ELSE /\ task'[t] = Ended("stopped by tick")
                     /\ InFlight' = InFlight
                     /\ lastCheckAt' = lastCheckAt
                     /\ ~isRunning'
                     /\ agentInterval' = 0

C23_TickReadsCurrentSettings == [][C23_TickStep]_vars

\* a start found the agent enabled and scheduled a timer, and a callback
\* of a timer found it disabled
C23_Witness ==
    /\ \E t \in Calls : task[t] = Ended("scheduled")
    /\ \E t \in Calls : task[t] = Ended("stopped by tick")
    /\ ~isRunning
    /\ lastCheckAt = 1

\* calls that have performed a run and the write that follows it
HaveRun == {t \in Calls : task[t].pc \in {"schedule", "scheduled", "ticked", "checked"}}

\* C25 (step): the step in which a run returns, whatever its outcome and
\* whoever called it, writes a later lastCheckAt.
C25_RunEndWritesLastCheck ==
    \A t \in Calls :
        (task[t].pc = "running" /\ task'[t] # task[t]) => lastCheckAt' = lastCheckAt + 1

\* C25: every run (initial run of start, timer-driven run, manual check),
\* whatever its outcome, is followed by an update of the last-run timestamp:
\* a call leaves its run only with that write, and the timestamp has been
\* written once for every run that has returned.
C25_EveryRunUpdatesLastCheck ==
    /\ [](lastCheckAt = Cardinality(HaveRun))
    /\ [][C25_RunEndWritesLastCheck]_vars

\* an initial run, a timer-driven run and a manual check have returned
C25_Witness ==
    /\ \E t \in Calls : task[t] = Ended("scheduled")
    /\ \E t \in Calls : task[t] = Ended("ticked")
    /\ \E t \in Calls : task[t] = Ended("checked")
    /\ lastCheckAt = 3

\* the last call of the behaviour was a settings request that gave
\* checkIntervalMinutes a new value while isRunning was true, and it has
\* returned
IntervalChanged ==
    /\ Quiet
    /\ lastOp.op = "PATCH"
    /\ \A u \in Calls : u > lastOp.call => task[u].pc = "idle"
    /\ "checkIntervalMinutes" \in DOMAIN lastOp.data
    /\ lastOp.data.checkIntervalMinutes # lastOp.before
    /\ lastOp.wasRunning

\* C21: after a settings update that changes checkIntervalMinutes while the
\* scheduler is Running, the timer that was pending is cancelled and, when
\* the scheduler is Running, exactly one timer is live and it has the period
\* of the new interval.
C21_IntervalChangeReschedules ==
    IntervalChanged
       => /\ \A k \in timers : k.id # lastOp.timer
          /\ isRunning => \E k \in timers :
                             timers = {k} /\ k.minutes = lastOp.data.checkIntervalMinutes

\* calls whose promise was rejected: an error left them uncaught and unlogged
Rejected == {t \in Calls : task[t] = Ended("rejected")}

\* C24: an error in a timer-driven run is caught and logged; it escapes
\* neither runCheck nor the timer callback, and the timer stays scheduled.
C24_NoErrorEscapes ==
    /\ [](Rejected = {})
    /\ [][\A t \in Calls : (task[t].kind = "tick" /\ task'[t] = Ended("rejected"))
                              => timers' = timers]_vars

\* C26: the settings table holds at most one row in every reachable state,
\* under every interleaving of getAgentSettings and updateAgentSettings
\* calls on a table that is empty at first, and a row is created with
\* interval 10 and isActive true.
C26_SingleSettingsRow ==
    /\ [](Len(agentSettings) <= 1)
    /\ [][Len(agentSettings') > Len(agentSettings)
             => /\ Len(agentSettings') = Len(agentSettings) + 1
                /\ agentSettings'[Len(agentSettings')].checkIntervalMinutes = 10
                /\ agentSettings'[Len(agentSettings')].isActive]_vars

\* the sendStudyNotification calls that a step makes
NewCalls == notifyCalls' \ notifyCalls

\* the rows whose notified flag a step sets
NewlyMarked == {s \in studies : ~s.notified /\ \E t \in studies' : t.id = s.id /\ t.notified}

C31_BatchIsStored ==
    \A c \in NewCalls : \A b \in c.batch :
        \E s \in studies : s.id = b.id /\ s.externalId = b.externalId

C31_MarkAfterCall ==
    \A r \in Runs :
        (runCheck(r) /\ NewlyMarked # {})
           => \A s \in NewlyMarked :
                \E c \in notifyCalls : c.run = r /\ \E b \in c.batch : b.id = s.id

\* C31: within a run the steps are ordered persist, notify, mark: every
\* record of a notification batch is stored when the call is made, and a
\* record is marked only when the call for its batch has returned.
C31_PersistNotifyMark == [][C31_BatchIsStored /\ C31_MarkAfterCall]_vars

\* a run with a batch of two has marked the first record and not yet the second
C31_Witness ==
    \E r \in Runs :
        /\ pc[r] = "mark"
        /\ idx[r] = 2
        /\ Len(newStudies[r]) = 2
        /\ \E c \in notifyCalls : c.run = r /\ Cardinality(c.batch) = 2

\* a stored record that is not notified and whose creating run has ended
Orphan(s) == ~s.notified /\ \A q \in Runs : s.id \notin IdsOf(newStudies[q])

\* C32: a record that is notified=false when the run that created it has
\* ended is in the batch of no later call and stays notified=false.
C32_NoRetry ==
    [][\A s \in studies :
         Orphan(s) => /\ s \in studies'
                      /\ Orphan(s)'
                      /\ \A c \in NewCalls : \A b \in c.batch : b.id # s.id]_vars

\* a later run has notified its own record with success while the record
\* of an earlier run is still unnotified
C32_Witness ==
    \E s \in studies : \E c \in notifyCalls :
        /\ Orphan(s)
        /\ c.success
        /\ pc[c.run] = "done"
        /\ startedAfter[c.run] # {}
        /\ s.externalId \in scrapedIds[c.run]
        /\ \A b \in c.batch : b.id # s.id
        /\ \E t \in studies : t.notified

\* the identities that run r inserted, by its "New study" entries
InsertedBy(r) ==
    {checkLogs[r][k].message[2] :
        k \in {j \in 1..Len(checkLogs[r]) : checkLogs[r][j].message[1] = "New study"}}

\* C33: when a run ends while a recipient is active, every record it
\* inserted is in the batch of a call of that run, also when the run met an
\* error on a later candidate.
C33_InsertedAreNotified ==
    [][\A r \in Runs :
         (runCheck(r) /\ pc'[r] = "done" /\ getActiveEmailRecipients(emailRecipients) # {})
            => \A x \in InsertedBy(r)' :
                 \E c \in notifyCalls' : c.run = r /\ \E b \in c.batch : b.externalId = x]_vars

\* run r reads the recipient list and goes on to the notification call
ReadsRecipients(r) == runCheck(r) /\ pc[r] = "lookup" /\ pc'[r] = "send"

C34_ReadTakesActiveOnly ==
    \A r \in Runs :
        ReadsRecipients(r) => emails'[r] = {e \in Addresses : emailRecipients[e] = "active"}

C34_SendsToListOnly ==
    /\ \A e \in Addresses : sendAttempts[e] > 0 => e \in SeqToSet(sendQueue)
    /\ \A r \in Runs : pc[r] = "sending" => SeqToSet(sendQueue) = emails[r]

\* C34: the batch is sent only to the recipients that are active when the
\* run reads the recipient list; a recipient that is inactive at that read
\* gets no message from the run.
C34_OnlyActiveRecipients == []C34_SendsToListOnly /\ [][C34_ReadTakesActiveOnly]_vars

\* the send loop has ended with one address attempted, the other address
\* being a recipient that is stored as inactive
C34_Witness ==
    \E r \in Runs : \E e, f \in Addresses :
        /\ pc[r] = "sending"
        /\ sendIdx > Len(sendQueue)
        /\ sendQueue = <<e>>
        /\ sendAttempts[e] = 1
        /\ emailRecipients[f] = "inactive"
        /\ sendAttempts[f] = 0

StartEntry == LogEntry(<<"Initiating scheduled check...">>, "info")

OutcomeEntries ==
    {LogEntry(<<"Email notifications sent successfully">>, "success"),
     LogEntry(<<"Failed to send email notifications">>, "error")}

IsPrefix(a, b) == Len(a) <= Len(b) /\ \A k \in 1..Len(a) : a[k] = b[k]

\* the entries that a step appends to the log of run r
Appended(r) == SubSeq(checkLogs'[r], Len(checkLogs[r]) + 1, Len(checkLogs'[r]))

\* the rows that a step inserts
Created == {s \in studies' : \A t \in studies : t.id # s.id}

NewStudyEntries(log) == {k \in 1..Len(log) : log[k].message[1] = "New study"}

C35_AppendOnly == \A r \in Runs : IsPrefix(checkLogs[r], checkLogs'[r])

C35_StepLogs ==
    \A r \in Runs :
        runCheck(r)
           => /\ pc[r] = "idle" => /\ checkLogs'[r] = <<StartEntry>>
                                   /\ studies' = studies
                                   /\ notifyCalls' = notifyCalls
              /\ Cardinality(NewStudyEntries(Appended(r))) = Cardinality(Created)
              /\ \A s \in Created :
                   \E k \in NewStudyEntries(Appended(r)) :
                       Appended(r)[k].message = <<"New study", s.externalId, s.payout>>
              /\ NewCalls # {} => /\ Len(Appended(r)) = 1
                                  /\ Appended(r)[1] \in OutcomeEntries
                                  /\ \A c \in NewCalls :
                                       c.success <=> Appended(r)[1].logType = "success"

C35_StartEntryFirst ==
    \A r \in Runs :
        IF pc[r] = "idle" THEN checkLogs[r] = << >> ELSE checkLogs[r][1] = StartEntry

\* C35: a run appends its start entry before any other effect, one "New
\* study" entry per record it inserts and an outcome entry with every
\* notification call; the log of a run only grows at its end.
C35_LogIsAppendOnly == []C35_StartEntryFirst /\ [][C35_AppendOnly /\ C35_StepLogs]_vars

\* a run has inserted two records and logged the outcome of its call
C35_Witness ==
    \E r \in Runs :
        /\ pc[r] = "done"
        /\ Cardinality(NewStudyEntries(checkLogs[r])) = 2
        /\ LastLog(r) \in OutcomeEntries

\* the startAgent, stopAgent and restartAgent calls that have not returned
Lifecycle == {t \in Calls : task[t].kind \in {"start", "stop", "restart"}}

\* C36: whenever no startAgent, stopAgent or restartAgent call is in
\* flight, isRunning is true exactly when a live interval timer exists.
C36_RunningIffTimer == (Lifecycle = {}) => (isRunning <=> timers # {})

\* the settings row says that the scheduler is disabled
Inactive == Len(agentSettings) > 0 /\ ~getAgentSettings(agentSettings).isActive

\* the scheduler is stopped: no timer, and no callback that is still to act
Stopped ==
    /\ ~isRunning
    /\ timers = {}
    /\ \A t \in Calls : task[t].kind # "tick"

\* C37: if settings.isActive becomes false and stays false, then with
\* timers that keep firing the scheduler reaches a state with isRunning
\* false and no live timer, and stays there: no callback runs any more.
C37_DisabledStopsForGood == (<>[]Inactive) => (<>[]Stopped)

AlreadyRunningEntry == LogEntry(<<"Agent already running">>, "warning")

\* a step of call t, which is a startAgent call at its test of isRunning
\* while isRunning is true
StartsWhileRunning(t) == task[t].pc = "startCheck" /\ task'[t] # task[t] /\ isRunning

\* C38: startAgent called while isRunning is true performs no run, creates
\* no timer, leaves the timers, the handle, isRunning and the settings as
\* they are and returns; its only effect is the warning log entry.
C38_StartWhileRunningOnlyWarns ==
    [][\A t \in Calls :
         StartsWhileRunning(t)
            => /\ task'[t] = Ended("already running")
               /\ \A u \in Calls \ {t} : task'[u] = task[u]
               /\ InFlight' = InFlight
               /\ timers' = timers
               /\ agentInterval' = agentInterval
               /\ isRunning'
               /\ agentSettings' = agentSettings
               /\ lastOp' = [op |-> "addLog", call |-> t, entries |-> <<AlreadyRunningEntry>>]
               /\ UNCHANGED <<studies, nextId, emailRecipients, runVars, detailVars>>]_vars

\* a start request has returned with the warning while the timer of the
\* earlier start is live and its period differs from the stored interval
C38_Witness ==
    /\ lastOp.op = "addLog"
    /\ lastOp.entries = <<AlreadyRunningEntry>>
    /\ task[lastOp.call] = Ended("already running")
    /\ isRunning
    /\ \E k \in timers : /\ k.id = agentInterval
                         /\ k.minutes # getAgentSettings(agentSettings).checkIntervalMinutes

\* a step that only takes the last entry from the log of a run
LogLossOnly ==
    /\ \E r \in Runs :
         /\ checkLogs[r] # << >>
         /\ checkLogs' = [checkLogs EXCEPT ![r] = SubSeq(@, 1, Len(@) - 1)]
    /\ UNCHANGED <<studies, nextId, emailRecipients, pc, scrapedStudies, idx, newStudies,
                   emails, result, startedAfter, scrapedIds, notifyCalls, lastOp,
                   detailVars, agentVars>>

\* a run that has returned after its call returned what the call was given,
\* and has marked every record of a call that succeeded
C39_Outcome ==
    \A r \in Runs : \A c \in notifyCalls :
        (pc[r] = "done" /\ c.run = r)
           => /\ SeqToSet(result[r]) = c.batch
              /\ c.success => \A s \in StoredOf(c.batch) : s.notified

\* C39: a failure to write a log entry changes no outcome of a run: the
\* step in which the write fails changes nothing but the log, and every
\* other step is a step of the run with a working log store.
C39_LogFailureChangesNoOutcome == []C39_Outcome /\ [][Next \/ LogLossOnly]_vars

\* a run has inserted, notified, marked and returned two records while
\* none of its log entries was written
C39_Witness ==
    \E r \in Runs :
        /\ pc[r] = "done"
        /\ Len(result[r]) = 2
        /\ Cardinality(studies) = 2
        /\ \A s \in studies : s.notified
        /\ \E c \in notifyCalls : c.run = r /\ c.success
        /\ checkLogs[r] = << >>

====
